---- MODULE Spec2Model ----
(***************************************************************************)
(* A model of the assembly engine of customasm (src/src/asm/state.rs):     *)
(* the pass loop of Assembler::assemble, the bank registry                 *)
(* (State::create_bank), address computation (State::get_addr), the        *)
(* resolution of a bank's invocations (State::resolve_bankdata and the     *)
(* resolve_* methods) and the two evaluator callbacks (eval_var, eval_fn). *)
(*                                                                         *)
(* Collaborators whose code is outside state.rs (BigInt, BitVec, RcReport, *)
(* SymbolManager, the expression evaluator, the parser) are modelled from  *)
(* their use in state.rs and from the specification.                       *)
(***************************************************************************)
EXTENDS Integers, Sequences, FiniteSets, TLC

(***************************************************************************)
(* Bounds of the model.                                                    *)
(***************************************************************************)
\* largest max_iterations a caller passes to assemble
MaxIter == 2
\* longest source file, in items (labels, data, instructions, bank headers)
MaxItems == 2
\* most create_bank calls made on one State in the bank-registry runs
MaxCreate == 2
\* longest candidate list in the candidate-selection runs
MaxCands == 2
\* largest bit offset of a context in the runs of one method on its own
MaxBitOffset == 17
\* most arguments of a call of assert in those runs
MaxArgs == 2

(***************************************************************************)
(* Option<usize>: None is -1, Some(n) is n.                                *)
(***************************************************************************)
None == 0 - 1

is_some(o) == o # None

Max2(a, b) == IF a >= b THEN a ELSE b

RECURSIVE Pow2(_)
Pow2(n) == IF n <= 0 THEN 1 ELSE 2 * Pow2(n - 1)

(***************************************************************************)
(* expr::Value = Integer(BigInt) | Bool | Void | Function(name).           *)
(* One record shape for all four: t is the variant, v the integer (or 1/0  *)
(* for a boolean), size the BigInt's declared size (None when absent).     *)
(* NoValue stands for the None of an Option<Value> / a missing symbol.     *)
(***************************************************************************)
Integer(v, size) == [t |-> "int", v |-> v, size |-> size]

\* expr::Value::make_integer: an integer without declared size
make_integer(v) == Integer(v, None)

Bool(b) == [t |-> "bool", v |-> IF b THEN 1 ELSE 0, size |-> None]

Void == [t |-> "void", v |-> 0, size |-> None]

Function(name) == [t |-> "fn:" \o name, v |-> 0, size |-> None]

NoValue == [t |-> "none", v |-> 0, size |-> None]

\* BigInt::min_size: bits needed for the magnitude; 1 for zero
RECURSIVE BitLen(_)
BitLen(n) == IF n <= 0 THEN 0 ELSE 1 + BitLen(n \div 2)

min_size(bigint) == IF bigint.v = 0 THEN 1 ELSE BitLen(bigint.v)

(***************************************************************************)
(* util::BitVec: a sequence of bits, bit offset p at index p + 1.          *)
(***************************************************************************)
BitVec_new == << >>

\* bit k (0 = most significant) of the size-bit rendering of v
BitOf(v, size, k) == (v \div Pow2(size - 1 - k)) % 2

\* the buffer with the bits new[1..n] at offsets off .. off + n - 1, the
\* rest kept, zero-extended when shorter
Overwrite(bv, off, new, n) ==
    [i \in 1..Max2(Len(bv), off + n) |->
        IF i > off /\ i <= off + n THEN new[i - off]
        ELSE IF i <= Len(bv) THEN bv[i] ELSE 0]

\* the size-bit rendering of v, most significant bit first
Bits(v, size) == [k \in 1..size |-> BitOf(v, size, k - 1)]

\* BitVec::write_bigint: the declared size if present, else min_size
write_bigint_sized(bv, off, v, size) == Overwrite(bv, off, Bits(v, size), size)

write_bigint(bv, off, bigint) ==
    write_bigint_sized(bv, off, bigint.v,
        IF is_some(bigint.size) THEN bigint.size ELSE min_size(bigint))

\* BitVec::write_bitvec: every bit of other, at off onwards
write_bitvec(bv, off, other) == Overwrite(bv, off, other, Len(other))

(***************************************************************************)
(* diagn::RcReport: an append-only sequence of messages.  A message has a  *)
(* kind (Error or Note), its text, the span it points at, the numbers its  *)
(* format string takes and the name it quotes.                             *)
(***************************************************************************)
RcReport_new == << >>

Message(kind, text, span, args, name) ==
    [kind |-> kind, text |-> text, span |-> span, args |-> args, name |-> name]

\* RcReport::error_span
error_span(report, text, span, args, name) ==
    Append(report, Message("error", text, span, args, name))

\* RcReport::has_errors
has_errors(report) == \E i \in 1..Len(report) : report[i].kind = "error"

\* RcReport::transfer_to: the target with the source's messages moved in
transfer_to(from, to) == to \o from

(***************************************************************************)
(* asm::Bank and asm::BankData.                                            *)
(***************************************************************************)
Bank(name, output_offset, addr_size, addr_start, wordsize, decl_span) ==
    [name |-> name, output_offset |-> output_offset, addr_size |-> addr_size,
     addr_start |-> addr_start, wordsize |-> wordsize, decl_span |-> decl_span]

\* asm::Bank::new_default: the unnamed bank at the start of the image
Bank_new_default == Bank("", 0, None, 0, 8, None)

BankData(index) ==
    [bank_ref |-> index, cur_bit_offset |-> 0, invokations |-> << >>]

(***************************************************************************)
(* asm::SymbolManager, flat: a function from the names a source can        *)
(* declare to their value, NoValue when the name is not declared.          *)
(***************************************************************************)
Names == {"a", "u"}

SymbolManager_new == [n \in Names |-> NoValue]

\* SymbolManager::get: Some(value) or NoValue
symbols_get(table, name) == IF name \in Names THEN table[name] ELSE NoValue

(***************************************************************************)
(* State.  Bank indices are the Rust indices: banks[i + 1] is bank i.      *)
(***************************************************************************)
\* create_bank, the overlap test of one pair (new bank, registered bank)
overlap(bank, other_bank) ==
    LET outp1 == bank.output_offset * bank.wordsize
        outp2 == other_bank.output_offset * bank.wordsize
        size1 == IF is_some(bank.addr_size)
                 THEN bank.addr_size * bank.wordsize ELSE None
        size2 == IF is_some(other_bank.addr_size)
                 THEN other_bank.addr_size * bank.wordsize ELSE None
    IN  CASE ~is_some(size1) /\ ~is_some(size2) -> TRUE
          [] is_some(size1) /\ ~is_some(size2) -> outp1 + size1 > outp2
          [] ~is_some(size1) /\ is_some(size2) -> outp2 + size2 > outp1
          [] OTHER -> outp1 + size1 > outp2 /\ outp2 + size2 > outp1

\* create_bank, the registered banks (Rust index >= 1) the loop tests
checked_banks(st) == 2..Len(st.banks)

\* create_bank, lines 231-266: the registered banks the new one overlaps
overlapping_banks(st, bank) ==
    {j \in checked_banks(st) :
        is_some(st.banks[j].output_offset) /\ overlap(bank, st.banks[j])}

\* the first of them, in registration order
first_of(hits) == CHOOSE j \in hits : \A k \in hits : j <= k

\* create_bank, lines 256-265: the rejection
reject_bank(st, bank, report, hits) ==
    [ok |-> FALSE, state |-> st,
     report |-> error_span(report, "output region overlaps with bank",
                           bank.decl_span, << >>, st.banks[first_of(hits)].name)]

\* a registration that leaves the current bank as it was (line 280 left out)
register_bank_keep_cur(st, bank, report, bank_ref) ==
    [ok |-> TRUE,
     state |-> [st EXCEPT !.banks = Append(@, bank),
                          !.bankdata = Append(@, BankData(bank_ref))],
     report |-> report]

\* create_bank, lines 269-281: the registration
register_bank(st, bank, report, bank_ref) ==
    [ok |-> TRUE,
     state |-> [st EXCEPT !.banks = Append(@, bank),
                          !.bankdata = Append(@, BankData(bank_ref)),
                          !.cur_bank = bank_ref],
     report |-> report]

create_bank_checked(st, bank, report, hits) ==
    IF is_some(bank.output_offset) /\ hits # {}
    THEN reject_bank(st, bank, report, hits)
    ELSE register_bank(st, bank, report, Len(st.banks))

\* State::create_bank: [ok, state, report]
create_bank(st, bank, report) ==
    create_bank_checked(st, bank, report, overlapping_banks(st, bank))

\* State::new, lines 165-175: the State before the default bank is created
State_empty ==
    [banks |-> << >>, bankdata |-> << >>,
     symbols |-> SymbolManager_new, symbol_guesses |-> SymbolManager_new,
     rulesets |-> << >>, active_rulesets |-> << >>,
     cur_bank |-> 0, cur_wordsize |-> 8]

\* State::new
State_new == create_bank(State_empty, Bank_new_default, RcReport_new).state

\* Context
Context(bit_offset, bank_ref) == [bit_offset |-> bit_offset, bank_ref |-> bank_ref]

\* State::get_ctx
get_ctx(st) == Context(st.bankdata[st.cur_bank + 1].cur_bit_offset, st.cur_bank)

\* get_addr, lines 204-215: the misaligned position is reported
misaligned(report, span, bits_short) ==
    [ok |-> FALSE, addr |-> 0,
     report |-> error_span(report,
         "position is not aligned to an address boundary", span,
         <<bits_short>>, IF bits_short > 1 THEN "bits" ELSE "bit")]

get_addr_of(bank, report, ctx, span, bits, excess_bits) ==
    IF excess_bits # 0
    THEN misaligned(report, span, bits - excess_bits)
    ELSE [ok |-> TRUE, addr |-> (ctx.bit_offset \div bits) + bank.addr_start,
          report |-> report]

\* an address computation in the bank's words instead of bytes (bank.wordsize
\* for the literal 8 of line 200)
get_addr_by_wordsize(st, report, ctx, span) ==
    get_addr_of(st.banks[ctx.bank_ref + 1], report, ctx, span,
                st.banks[ctx.bank_ref + 1].wordsize,
                ctx.bit_offset % st.banks[ctx.bank_ref + 1].wordsize)

\* State::get_addr: [ok, addr, report]
get_addr(st, report, ctx, span) ==
    get_addr_of(st.banks[ctx.bank_ref + 1], report, ctx, span, 8,
                ctx.bit_offset % 8)

(***************************************************************************)
(* expr::Expr, as far as the engine's callers build it: a literal, a       *)
(* variable, a comparison with a constant, a bit slice x[n-1:0], a call, a *)
(* block { e1, e2 } and an expression on which the evaluator leaves a Note *)
(* in the sink.  One record shape for all: op, the variable's name, the    *)
(* constant n, the literal's value, the sub-expressions, the span.         *)
(***************************************************************************)
Expr(op, name, n, val, kids, span) ==
    [op |-> op, name |-> name, n |-> n, val |-> val, kids |-> kids, span |-> span]

Literal(val, span) == Expr("lit", "", 0, val, << >>, span)

Variable(name, span) == Expr("var", name, 0, NoValue, << >>, span)

LessThan(e, n, span) == Expr("lt", "", n, NoValue, <<e>>, span)

Slice(e, n, span) == Expr("slice", "", n, NoValue, <<e>>, span)

CallOf(target, args, span) == Expr("call", "", 0, NoValue, <<target>> \o args, span)

Block(es, span) == Expr("block", "", 0, NoValue, es, span)

Noted(e, span) == Expr("note", "", 0, NoValue, <<e>>, span)

\* expr::EvalContext: the locals of one rule production
ParamNames == {"x"}

EvalContext_new == [p \in ParamNames |-> NoValue]

set_local(eval_ctx, name, value) == [eval_ctx EXCEPT ![name] = value]

\* Result<expr::Value, bool> of a callback, with the sink it wrote to
Returned(val, report) ==
    [ok |-> TRUE, val |-> val, handled |-> FALSE, report |-> report]

Refused(handled, report) ==
    [ok |-> FALSE, val |-> NoValue, handled |-> handled, report |-> report]

\* eval_var, lines 636-643: the address, or Err(true)
eval_var_addr(addr) ==
    IF addr.ok THEN Returned(make_integer(addr.addr), addr.report)
    ELSE Refused(TRUE, addr.report)

\* a lookup that reads the guesses in the final pass too (the test of line
\* 661 left out)
eval_var_symbol_always_guessed(symbol, guess, report, final_pass) ==
    IF symbol # NoValue THEN Returned(symbol, report)
    ELSE IF guess # NoValue THEN Returned(guess, report)
    ELSE Returned(make_integer(0), report)

\* eval_var, lines 657-675: symbols, then the guesses unless the pass is final
eval_var_symbol(symbol, guess, report, final_pass) ==
    IF symbol # NoValue THEN Returned(symbol, report)
    ELSE IF ~final_pass
    THEN IF guess # NoValue THEN Returned(guess, report)
         ELSE Returned(make_integer(0), report)
    ELSE Refused(FALSE, report)

\* State::eval_var
eval_var(st, ctx, info, final_pass) ==
    IF info.name \in {"$", "pc"}
    THEN eval_var_addr(get_addr(st, info.report, ctx, info.span))
    ELSE IF info.name = "assert"
    THEN Returned(Function("assert"), info.report)
    ELSE eval_var_symbol(symbols_get(st.symbols, info.name),
                         symbols_get(st.symbol_guesses, info.name),
                         info.report, final_pass)

\* an assert that lets a false argument pass (lines 706-710 returning Void)
eval_fn_lenient(st, ctx, info) ==
    IF Len(info.args) # 1
    THEN Refused(TRUE, error_span(info.report, "wrong number of arguments",
                                  info.span, << >>, ""))
    ELSE IF info.args[1].t = "bool"
    THEN Returned(Void, info.report)
    ELSE Refused(TRUE, error_span(info.report, "wrong argument type",
                                  info.span, << >>, ""))

\* State::eval_fn; info.func is Function("assert")
eval_fn(st, ctx, info) ==
    IF Len(info.args) # 1
    THEN Refused(TRUE, error_span(info.report, "wrong number of arguments",
                                  info.span, << >>, ""))
    ELSE IF info.args[1].t = "bool"
    THEN IF info.args[1].v = 1
         THEN Returned(Void, info.report)
         ELSE Refused(TRUE, error_span(info.report, "assertion failed",
                                       info.span, << >>, ""))
    ELSE Refused(TRUE, error_span(info.report, "wrong argument type",
                                  info.span, << >>, ""))

(***************************************************************************)
(* expr::Expr::eval, driven by the two callbacks: [ok, val, report].  A    *)
(* local of the evaluation context shadows the variable callback; a        *)
(* callback failure that was not handled gets the evaluator's own error.   *)
(***************************************************************************)
Failed(report) == [ok |-> FALSE, val |-> NoValue, report |-> report]

Succeeded(val, report) == [ok |-> TRUE, val |-> val, report |-> report]

RECURSIVE Eval(_, _, _, _, _, _)
RECURSIVE EvalSeq(_, _, _, _, _, _, _, _)

\* what the evaluator makes of a callback's answer r
FromCallback(e, r) ==
    IF r.ok THEN Succeeded(r.val, r.report)
    ELSE IF r.handled THEN Failed(r.report)
    ELSE Failed(error_span(r.report, "unknown symbol", e.span, << >>, e.name))

EvalVariable(st, report, e, ctx, eval_ctx, final_pass) ==
    IF e.name \in ParamNames /\ eval_ctx[e.name] # NoValue
    THEN Succeeded(eval_ctx[e.name], report)
    ELSE FromCallback(e, eval_var(st, ctx,
             [name |-> e.name, span |-> e.span, report |-> report], final_pass))

\* the sub-expressions es[i..] in order, r being the outcome of es[i]:
\* [ok, vals, report]
EvalSeqAfter(st, es, i, ctx, eval_ctx, final_pass, vals, r) ==
    IF ~r.ok THEN [ok |-> FALSE, vals |-> vals, report |-> r.report]
    ELSE EvalSeq(st, r.report, es, i + 1, ctx, eval_ctx, final_pass,
                 Append(vals, r.val))

EvalSeq(st, report, es, i, ctx, eval_ctx, final_pass, vals) ==
    IF i > Len(es) THEN [ok |-> TRUE, vals |-> vals, report |-> report]
    ELSE EvalSeqAfter(st, es, i, ctx, eval_ctx, final_pass, vals,
                      Eval(st, report, es[i], ctx, eval_ctx, final_pass))

\* a call, rs being the outcome of the target and the arguments
EvalCall(st, e, ctx, rs) ==
    IF ~rs.ok THEN Failed(rs.report)
    ELSE IF rs.vals[1] # Function("assert")
    THEN Failed(error_span(rs.report, "expression is not callable",
                           e.span, << >>, ""))
    ELSE FromCallback(e, eval_fn(st, ctx,
             [func |-> rs.vals[1], args |-> Tail(rs.vals),
              span |-> e.span, report |-> rs.report]))

\* a block, rs being the outcome of its expressions
EvalBlock(rs) ==
    IF ~rs.ok THEN Failed(rs.report)
    ELSE Succeeded(rs.vals[Len(rs.vals)], rs.report)

\* a comparison, a slice or a noted expression, r being the outcome of its
\* operand
EvalUnary(e, r) ==
    IF ~r.ok \/ e.op = "note" THEN r
    ELSE IF r.val.t # "int"
    THEN Failed(error_span(r.report, "invalid argument type", e.span, << >>, ""))
    ELSE IF e.op = "lt" THEN Succeeded(Bool(r.val.v < e.n), r.report)
    ELSE Succeeded(Integer(r.val.v % Pow2(e.n), e.n), r.report)

Eval(st, report, e, ctx, eval_ctx, final_pass) ==
    CASE e.op = "lit" -> Succeeded(e.val, report)
      [] e.op = "var" -> EvalVariable(st, report, e, ctx, eval_ctx, final_pass)
      [] e.op \in {"call", "block"} ->
            IF e.op = "call"
            THEN EvalCall(st, e, ctx,
                     EvalSeq(st, report, e.kids, 1, ctx, eval_ctx, final_pass, << >>))
            ELSE EvalBlock(
                     EvalSeq(st, report, e.kids, 1, ctx, eval_ctx, final_pass, << >>))
      [] OTHER ->
            EvalUnary(
                e,
                Eval(st,
                     IF e.op = "note"
                     THEN Append(report, Message("note", "note", e.span, << >>, ""))
                     ELSE report,
                     e.kids[1], ctx, eval_ctx, final_pass))

\* State::eval_expr
eval_expr(st, report, expr, ctx, eval_ctx, final_pass) ==
    Eval(st, report, expr, ctx, eval_ctx, final_pass)

(***************************************************************************)
(* Rules, candidates and invocations.                                      *)
(***************************************************************************)
Rule(parameters, production) ==
    [parameters |-> parameters, production |-> production]

RuleRef(ruleset_ref, index) == [ruleset_ref |-> ruleset_ref, index |-> index]

\* asm::RuleInvokationArgument::Expression / ::NestedRuleset
Expression(expr) == [kind |-> "expr", expr |-> expr, candidates |-> << >>]

NestedRuleset(candidates) ==
    [kind |-> "nested", expr |-> Literal(Void, 0), candidates |-> candidates]

RuleInvokationCandidate(rule_ref, args) == [rule_ref |-> rule_ref, args |-> args]

\* asm::Invokation of kind Rule / Data
RuleInvokation(ctx, span, size_guess, candidates) ==
    [kind |-> "rule", ctx |-> ctx, span |-> span, size_guess |-> size_guess,
     expr |-> Literal(Void, span), elem_size |-> None, candidates |-> candidates]

DataInvokation(ctx, span, size_guess, expr, elem_size) ==
    [kind |-> "data", ctx |-> ctx, span |-> span, size_guess |-> size_guess,
     expr |-> expr, elem_size |-> elem_size, candidates |-> << >>]

\* State::get_rule
get_rule(st, rule_ref) ==
    st.rulesets[rule_ref.ruleset_ref + 1].rules[rule_ref.index + 1]

\* a size test that also refuses a value exactly as large as the directive
\* (>= for > at line 476)
fit_to_elem_size_inclusive(invokation, elem_size, r) ==
    IF ~r.ok THEN r
    ELSE IF is_some(elem_size) /\ r.val.t = "int"
    THEN Succeeded(
            Integer(r.val.v, elem_size),
            IF min_size(r.val) >= elem_size
            THEN error_span(r.report, "value is larger than the directive size",
                            invokation.expr.span,
                            <<min_size(r.val), elem_size>>, "")
            ELSE r.report)
    ELSE r

\* resolve_data_invokation, lines 470-492, r being the evaluated expression
fit_to_elem_size(invokation, elem_size, r) ==
    IF ~r.ok THEN r
    ELSE IF is_some(elem_size) /\ r.val.t = "int"
    THEN Succeeded(
            Integer(r.val.v, elem_size),
            IF min_size(r.val) > elem_size
            THEN error_span(r.report, "value is larger than the directive size",
                            invokation.expr.span,
                            <<min_size(r.val), elem_size>>, "")
            ELSE r.report)
    ELSE r

\* State::resolve_data_invokation: [ok, val, report]
resolve_data_invokation(st, report, invokation, final_pass) ==
    fit_to_elem_size(invokation, invokation.elem_size,
        eval_expr(st, report, invokation.expr, invokation.ctx,
                  EvalContext_new, final_pass))

RECURSIVE resolve_rule_invokation_candidates(_, _, _, _, _)
RECURSIVE resolve_candidate_args(_, _, _, _, _, _, _)
RECURSIVE try_candidates(_, _, _, _, _, _, _)

\* resolve_rule_invokation_candidate, lines 564-595: the loop over the
\* candidate's arguments from argument i on, r being the value of
\* argument i: [ok, eval_ctx, report]
bind_candidate_arg(st, invokation, candidate, i, eval_ctx, final_pass, r) ==
    IF ~r.ok THEN [ok |-> FALSE, eval_ctx |-> eval_ctx, report |-> r.report]
    ELSE resolve_candidate_args(
             st, r.report, invokation, candidate, i + 1,
             set_local(eval_ctx,
                       get_rule(st, candidate.rule_ref).parameters[i], r.val),
             final_pass)

resolve_candidate_args(st, report, invokation, candidate, i, eval_ctx, final_pass) ==
    IF i > Len(candidate.args)
    THEN [ok |-> TRUE, eval_ctx |-> eval_ctx, report |-> report]
    ELSE bind_candidate_arg(
             st, invokation, candidate, i, eval_ctx, final_pass,
             IF candidate.args[i].kind = "expr"
             THEN eval_expr(st, report, candidate.args[i].expr, invokation.ctx,
                            EvalContext_new, final_pass)
             ELSE resolve_rule_invokation_candidates(
                      st, report, invokation, candidate.args[i].candidates,
                      final_pass))

\* resolve_rule_invokation_candidate, lines 597-602, a being the arguments
eval_production(st, invokation, candidate, final_pass, a) ==
    IF ~a.ok THEN Failed(a.report)
    ELSE eval_expr(st, a.report, get_rule(st, candidate.rule_ref).production,
                   invokation.ctx, a.eval_ctx, final_pass)

\* State::resolve_rule_invokation_candidate: [ok, val, report]
resolve_rule_invokation_candidate(st, report, invokation, candidate, final_pass) ==
    eval_production(st, invokation, candidate, final_pass,
        resolve_candidate_args(st, report, invokation, candidate, 1,
                               EvalContext_new, final_pass))

\* [ok, val, report, tried]: tried lists the candidates resolved, in order
Selected(r, report, tried) ==
    [ok |-> r.ok, val |-> r.val, report |-> report, tried |-> tried]

\* a selection that drops the chosen candidate's messages instead of
\* transferring them (line 532 left out)
candidate_resolved_silent(st, report, invokation, candidates, i, final_pass, tried, r) ==
    IF r.ok
    THEN Selected(r, report, Append(tried, i))
    ELSE try_candidates(st, report, invokation, candidates, i + 1,
                        final_pass, Append(tried, i))

\* resolve_rule_invokation_candidates, lines 528-535, r being the outcome
\* of candidate i against its own sink
candidate_resolved(st, report, invokation, candidates, i, final_pass, tried, r) ==
    IF r.ok
    THEN Selected(r, transfer_to(r.report, report), Append(tried, i))
    ELSE try_candidates(st, report, invokation, candidates, i + 1,
                        final_pass, Append(tried, i))

\* a selection whose rerun takes the first candidate instead of the last
\* (candidates.first() at line 543)
resolve_next_first(st, report, invokation, candidates, i, final_pass) ==
    resolve_rule_invokation_candidate(
        st,
        IF i > Len(candidates) THEN report ELSE RcReport_new,
        invokation,
        candidates[IF i > Len(candidates) THEN 1 ELSE i],
        final_pass)

\* the candidate resolved when i is past the list (the final pass's rerun
\* of the last candidate, against the parent sink), else candidate i
\* against a fresh sink
resolve_next(st, report, invokation, candidates, i, final_pass) ==
    resolve_rule_invokation_candidate(
        st,
        IF i > Len(candidates) THEN report ELSE RcReport_new,
        invokation,
        candidates[IF i > Len(candidates) THEN Len(candidates) ELSE i],
        final_pass)

\* the rerun's outcome is the call's outcome
rerun_resolved(r, tried, last) == Selected(r, r.report, Append(tried, last))

\* a selection that reruns the last candidate in every pass (the test of
\* line 538 left out)
try_candidates_always_rerun(st, report, invokation, candidates, i, final_pass, tried) ==
    IF i > Len(candidates)
    THEN rerun_resolved(
             resolve_next(st, report, invokation, candidates, i, final_pass),
             tried, Len(candidates))
    ELSE candidate_resolved(
             st, report, invokation, candidates, i, final_pass, tried,
             resolve_next(st, report, invokation, candidates, i, final_pass))

\* resolve_rule_invokation_candidates, the loop from candidate i on
try_candidates(st, report, invokation, candidates, i, final_pass, tried) ==
    IF i > Len(candidates) /\ ~final_pass
    THEN Selected(Failed(report), report, tried)
    ELSE IF i > Len(candidates)
    THEN rerun_resolved(
             resolve_next(st, report, invokation, candidates, i, final_pass),
             tried, Len(candidates))
    ELSE candidate_resolved(
             st, report, invokation, candidates, i, final_pass, tried,
             resolve_next(st, report, invokation, candidates, i, final_pass))

\* State::resolve_rule_invokation_candidates (a candidate list is never
\* empty: the parser records an instruction only when a rule matched it)
resolve_rule_invokation_candidates(st, report, invokation, candidates, final_pass) ==
    try_candidates(st, report, invokation, candidates, 1, final_pass, << >>)

\* State::resolve_rule_invokation
resolve_rule_invokation(st, report, invokation, final_pass) ==
    resolve_rule_invokation_candidates(
        st, report, invokation, invokation.candidates, final_pass)

(***************************************************************************)
(* State::resolve_bankdata.                                                *)
(***************************************************************************)
\* the final_pass flag resolve_bankdata hands to the resolve_* methods
bankdata_final_pass == TRUE

\* resolve_bankdata, lines 374-399: the invocation's value
\* (the parent message pushed at lines 378 and 390 groups the errors of a
\* failed resolution when they are printed; it is not a message of its own)
resolve_invokation(st, report, invok, final_pass) ==
    IF invok.kind = "rule"
    THEN resolve_rule_invokation(st, report, invok, final_pass)
    ELSE resolve_data_invokation(st, report, invok, final_pass)

\* lines 401-405
expr_name(invok) == IF invok.kind = "rule" THEN "instruction" ELSE "expression"

\* a placement that writes every sized integer, whatever the size guessed
\* (the comparison of line 415 left out)
place_resolved_any_size(bitvec, report, invok, resolved) ==
    IF resolved.t = "int"
    THEN IF is_some(resolved.size)
         THEN [bitvec |-> write_bigint(bitvec, invok.ctx.bit_offset, resolved),
               report |-> report]
         ELSE [bitvec |-> bitvec,
               report |-> error_span(report, "cannot infer size of",
                                     invok.span, << >>, expr_name(invok))]
    ELSE [bitvec |-> bitvec,
          report |-> error_span(report, "wrong type returned from",
                                invok.span, << >>, expr_name(invok))]

\* resolve_bankdata, lines 407-447: the value is written or an error is
\* recorded: [bitvec, report]
place_resolved(bitvec, report, invok, resolved) ==
    IF resolved.t = "int"
    THEN IF is_some(resolved.size)
         THEN IF resolved.size = invok.size_guess
              THEN [bitvec |-> write_bigint(bitvec, invok.ctx.bit_offset, resolved),
                    report |-> report]
              ELSE [bitvec |-> bitvec,
                    report |-> error_span(report,
                        "size did not converge after iterations",
                        invok.span, << >>, expr_name(invok))]
         ELSE [bitvec |-> bitvec,
               report |-> error_span(report, "cannot infer size of",
                                     invok.span, << >>, expr_name(invok))]
    ELSE [bitvec |-> bitvec,
          report |-> error_span(report, "wrong type returned from",
                                invok.span, << >>, expr_name(invok))]

RECURSIVE resolve_bankdata_from(_, _, _, _, _, _)

\* what the trace keeps of one invocation that resolved to a value: the
\* value, and the bit vector and the sink before and after the placement
Placed(invok, r, bitvec, p) ==
    [invok |-> invok, resolved |-> r.val,
     bitvec_before |-> bitvec, report_before |-> r.report,
     bitvec_after |-> p.bitvec, report_after |-> p.report]

placed_then(st, bank, i, trace, invok, r, bitvec, p) ==
    resolve_bankdata_from(st, p.report, bank, i + 1, p.bitvec,
                          Append(trace, Placed(invok, r, bitvec, p)))

\* r being the value of invocation i; an Err leaves the method at once
resolved_then(st, bank, i, bitvec, trace, invok, r) ==
    IF ~r.ok
    THEN [ok |-> FALSE, bitvec |-> BitVec_new, report |-> r.report, trace |-> trace]
    ELSE placed_then(st, bank, i, trace, invok, r, bitvec,
                     place_resolved(bitvec, r.report, invok, r.val))

\* the loop from invocation i on: [ok, bitvec, report, trace]
resolve_bankdata_from(st, report, bank, i, bitvec, trace) ==
    IF i > Len(bank.invokations)
    THEN [ok |-> TRUE, bitvec |-> bitvec, report |-> report, trace |-> trace]
    ELSE resolved_then(st, bank, i, bitvec, trace, bank.invokations[i],
             resolve_invokation(st, report, bank.invokations[i],
                                bankdata_final_pass))

\* State::resolve_bankdata
resolve_bankdata(st, report, bank) ==
    resolve_bankdata_from(st, report, bank, 1, BitVec_new, << >>)

(***************************************************************************)
(* The parser (asm::parser::parse_file), as far as the engine depends on   *)
(* it: it reads the lines of a root file in order and, per line, binds a   *)
(* label, registers a bank, or records an invocation whose size_guess is   *)
(* the size of a non-final resolution at the point of capture.             *)
(***************************************************************************)
\* the rules every source declares, their spans being lines 10 to 12 of
\* an included file:
\*   jmp {x} => { assert(x < 1), x[7:0] }
\*   jmp {x} => x[15:0]
\*   ld {x}  => x[7:0], the evaluator leaving a note
Ruleset_cpu ==
    [name |-> "cpu",
     rules |-> <<
        Rule(<<"x">>,
             Block(<<CallOf(Variable("assert", 10),
                            <<LessThan(Variable("x", 10), 1, 10)>>, 10),
                     Slice(Variable("x", 10), 8, 10)>>, 10)),
        Rule(<<"x">>, Slice(Variable("x", 11), 16, 11)),
        Rule(<<"x">>, Noted(Slice(Variable("x", 12), 8, 12), 12)) >>]

\* the lines a source file is made of
Lines ==
    {"jmp a", "ld a", "a:", "db 0x41", "db 0x1234", "db u", "dn 3", "db true",
     "#bank b1", "#bank raw"}

\* the candidates the parser matched for an instruction line
CandidatesOf(line, span) ==
    IF line = "jmp a"
    THEN << RuleInvokationCandidate(RuleRef(0, 0), <<Expression(Variable("a", span))>>),
            RuleInvokationCandidate(RuleRef(0, 1), <<Expression(Variable("a", span))>>) >>
    ELSE << RuleInvokationCandidate(RuleRef(0, 2), <<Expression(Variable("a", span))>>) >>

\* the expression and element size of a data line
DataExprOf(line, span) ==
    CASE line = "db 0x41" -> Literal(make_integer(65), span)
      [] line = "db 0x1234" -> Literal(make_integer(4660), span)
      [] line = "db u" -> Variable("u", span)
      [] line = "dn 3" -> Literal(make_integer(3), span)
      [] OTHER -> Literal(Bool(TRUE), span)

DataSizeOf(line) == IF line = "dn 3" THEN None ELSE 8

\* the bank a bank line declares
BankOf(line, span) ==
    IF line = "#bank b1" THEN Bank("b1", 2, 4, 0, 4, span)
    ELSE Bank("raw", None, None, 0, 8, span)

\* the invocation a line stands for, before its size is guessed
InvokationOf(line, span, ctx) ==
    IF line \in {"jmp a", "ld a"}
    THEN RuleInvokation(ctx, span, 0, CandidatesOf(line, span))
    ELSE DataInvokation(ctx, span, 0, DataExprOf(line, span), DataSizeOf(line))

\* the bits the parser reserves for an invocation: the declared size of a
\* non-final resolution r, 0 when there is none
guess_size(r) ==
    IF r.ok /\ r.val.t = "int" /\ is_some(r.val.size) THEN r.val.size ELSE 0

\* the invocation appended to the current bank, the cursor moved past it
push_invokation(st, invok, size_guess) ==
    [st EXCEPT
        !.bankdata[st.cur_bank + 1].invokations =
            Append(@, [invok EXCEPT !.size_guess = size_guess]),
        !.bankdata[st.cur_bank + 1].cur_bit_offset = @ + size_guess]

\* a label line, addr being the address of the current position
declare_label(st, report, span, addr) ==
    IF ~addr.ok THEN [ok |-> FALSE, state |-> st, report |-> addr.report]
    ELSE IF st.symbols["a"] # NoValue
    THEN [ok |-> FALSE, state |-> st,
          report |-> error_span(report, "duplicate symbol", span, << >>, "a")]
    ELSE [ok |-> TRUE,
          state |-> [st EXCEPT !.symbols["a"] = make_integer(addr.addr)],
          report |-> report]

\* an instruction or data line
record_invokation(st, report, invok) ==
    [ok |-> TRUE, report |-> report,
     state |-> push_invokation(st, invok,
                   guess_size(resolve_invokation(st, RcReport_new, invok, FALSE)))]

\* one line: [ok, state, report]
parse_line(st, report, line, span) ==
    CASE line = "a:" ->
            declare_label(st, report, span, get_addr(st, report, get_ctx(st), span))
      [] line \in {"#bank b1", "#bank raw"} ->
            create_bank(st, BankOf(line, span), report)
      [] OTHER ->
            record_invokation(st, report, InvokationOf(line, span, get_ctx(st)))

RECURSIVE parse_lines(_, _, _, _)

parse_lines_after(lines, i, r) ==
    IF ~r.ok THEN r ELSE parse_lines(r.state, r.report, lines, i + 1)

parse_lines(st, report, lines, i) ==
    IF i > Len(lines) THEN [ok |-> TRUE, state |-> st, report |-> report]
    ELSE parse_lines_after(lines, i, parse_line(st, report, lines[i], i))

\* asm::parser::parse_file: the rules are declared, then the lines are read
parse_file(st, report, lines) ==
    parse_lines([st EXCEPT !.rulesets = <<Ruleset_cpu>>, !.active_rulesets = <<0>>],
                report, lines, 1)

(***************************************************************************)
(* Assembler::assemble as a state machine.  The caller calls assemble on   *)
(* one Assembler, whose root files never change, any number of times.      *)
(***************************************************************************)
VARIABLES
    root_files,             \* Assembler.root_files, each file by its lines
    state,                  \* Assembler.state
    max_iterations,         \* the argument of the running call
    report,                 \* the caller's sink
    pc,                     \* where the call is: idle, parse, resolve, end_pass, done
    iteration,              \* assemble's locals
    symbol_guesses,
    pass_report,
    full_output,
    all_bankdata_resolved,
    bank_index,
    result,                 \* none, ok, err, or panic (an unwrap of None)
    bank_outputs,           \* history: what resolve_bankdata returned, this pass
    prev                    \* history: the outcome of the call before this one

\* the bank registry on its own
VARIABLES
    created                 \* history: the create_bank calls made, in order

\* candidate selection on its own
VARIABLES
    sel_in,                 \* the arguments of one call
    sel_out                 \* what it returned

\* one method of State called on its own
VARIABLES
    call_in,                \* the method and the arguments of one call
    call_out                \* what it returned

asm_vars ==
    <<root_files, state, max_iterations, report, pc, iteration, symbol_guesses,
      pass_report, full_output, all_bankdata_resolved, bank_index, result,
      bank_outputs, prev>>

other_vars == <<created, sel_in, sel_out, call_in, call_out>>

vars == <<asm_vars, other_vars>>

\* the source files of the runs: up to MaxItems lines
RECURSIVE SeqsUpTo(_, _)
SeqsUpTo(S, n) ==
    IF n = 0 THEN {<< >>}
    ELSE SeqsUpTo(S, n - 1) \cup {Append(q, x) : q \in SeqsUpTo(S, n - 1), x \in S}

Sources == SeqsUpTo(Lines, MaxItems)

NoCall == [max_iterations |-> None, result |-> "none", image |-> << >>, passes |-> 0]

Init ==
    /\ root_files \in {<<src>> : src \in Sources}
    /\ state = State_new
    /\ max_iterations = 0
    /\ report = RcReport_new
    /\ pc = "idle"
    /\ iteration = 0
    /\ symbol_guesses = SymbolManager_new
    /\ pass_report = RcReport_new
    /\ full_output = BitVec_new
    /\ all_bankdata_resolved = TRUE
    /\ bank_index = 0
    /\ result = "none"
    /\ bank_outputs = << >>
    /\ prev = NoCall
    /\ created = << >>
    /\ sel_in = << >>
    /\ sel_out = << >>
    /\ call_in = << >>
    /\ call_out = << >>

\* a driver that starts a pass without the guesses (line 91 left out)
fresh_state_unguessed(guesses) == State_new

\* assemble, lines 90-91: the fresh State with the guesses swapped in
fresh_state(guesses) == [State_new EXCEPT !.symbol_guesses = guesses]

\* assemble, lines 98-112: the root files in order, stopping at the first
\* file after which the pass's sink holds an error: [ok, state, report]
RECURSIVE parse_root_files(_, _, _, _)

parse_root_files_after(files, i, r) ==
    IF has_errors(r.report) \/ ~r.ok
    THEN [ok |-> FALSE, state |-> r.state, report |-> r.report]
    ELSE parse_root_files(r.state, r.report, files, i + 1)

parse_root_files(st, sink, files, i) ==
    IF i > Len(files) THEN [ok |-> TRUE, state |-> st, report |-> sink]
    ELSE parse_root_files_after(files, i, parse_file(st, sink, files[i]))

\* a driver that keeps one sink for all the passes (line 96 left out)
keep_pass_report(previous) == previous

\* assemble, line 96: the sink of a pass, whatever the pass before left
new_pass_report(previous) == RcReport_new

\* a driver that allows one pass more (max_iterations + 1 at line 149)
limit_reached_late(it, max) == it > max + 1

\* a driver that gives up while the limit is still ahead (< for > at line 149)
limit_reached_early(it, max) == it < max

\* assemble, line 149: the iteration limit is reached
limit_reached(it, max) == it > max

\* a driver that places a bank at its offset in words (line 139 without
\* the wordsize)
output_position_in_words(bank) == bank.output_offset

\* assemble, line 139: where a bank's bits go in the image
output_position(bank) == bank.output_offset * bank.wordsize

\* the caller calls assemble(report, fileserver, m) with a fresh sink
\* (lines 82-84); the call before it, if any, has returned
Assemble(m) ==
    /\ pc \in {"idle", "done"}
    /\ max_iterations' = m
    /\ report' = RcReport_new
    /\ symbol_guesses' = SymbolManager_new
    /\ iteration' = 0
    /\ result' = "none"
    /\ prev' = IF pc = "done"
               THEN [max_iterations |-> max_iterations, result |-> result,
                     image |-> IF result = "ok" THEN full_output ELSE << >>,
                     passes |-> iteration]
               ELSE prev
    /\ pc' = "parse"
    /\ UNCHANGED <<root_files, state, pass_report, full_output,
                   all_bankdata_resolved, bank_index, bank_outputs>>
    /\ UNCHANGED other_vars

\* lines 107-118, r being the outcome of parsing the root files
Parsed(r) ==
    /\ state' = r.state
    /\ pass_report' = r.report
    /\ report' = IF r.ok THEN report ELSE transfer_to(r.report, report)
    /\ result' = IF r.ok THEN result ELSE "err"
    /\ pc' = IF r.ok THEN "resolve" ELSE "done"

\* lines 87-118: a pass starts and the root files are parsed
ParsePass ==
    /\ pc = "parse"
    /\ iteration' = iteration + 1
    /\ symbol_guesses' = State_new.symbol_guesses
    /\ Parsed(parse_root_files(fresh_state(symbol_guesses),
                               new_pass_report(pass_report), root_files, 1))
    /\ full_output' = BitVec_new
    /\ all_bankdata_resolved' = TRUE
    /\ bank_index' = 0
    /\ bank_outputs' = << >>
    /\ UNCHANGED <<root_files, max_iterations, prev>>
    /\ UNCHANGED other_vars

\* a loop that looks at resolve_bankdata's result only, not at the sink
\* (pass_report.has_errors() left out of line 129)
BankResolved_unchecked(bank, bank_output) ==
    /\ pass_report' = bank_output.report
    /\ bank_outputs' = Append(bank_outputs,
                              [bank_index |-> bank_index,
                               ok |-> bank_output.ok,
                               bitvec |-> bank_output.bitvec,
                               trace |-> bank_output.trace])
    /\ IF ~bank_output.ok
       THEN /\ all_bankdata_resolved' = FALSE
            /\ pc' = "end_pass"
            /\ UNCHANGED <<full_output, bank_index, result>>
       ELSE IF ~is_some(bank.output_offset)
       THEN /\ result' = "panic"
            /\ pc' = "done"
            /\ UNCHANGED <<full_output, bank_index, all_bankdata_resolved>>
       ELSE /\ full_output' = write_bitvec(full_output, output_position(bank),
                                           bank_output.bitvec)
            /\ bank_index' = bank_index + 1
            /\ pc' = IF bank_index + 1 = Len(state.banks)
                     THEN "end_pass" ELSE "resolve"
            /\ UNCHANGED <<all_bankdata_resolved, result>>

\* lines 129-141, bank_output being what resolve_bankdata returned
BankResolved(bank, bank_output) ==
    /\ pass_report' = bank_output.report
    /\ bank_outputs' = Append(bank_outputs,
                              [bank_index |-> bank_index,
                               ok |-> bank_output.ok,
                               bitvec |-> bank_output.bitvec,
                               trace |-> bank_output.trace])
    /\ IF has_errors(bank_output.report) \/ ~bank_output.ok
       THEN /\ all_bankdata_resolved' = FALSE
            /\ pc' = "end_pass"
            /\ UNCHANGED <<full_output, bank_index, result>>
       ELSE IF ~is_some(bank.output_offset)
       THEN /\ result' = "panic"
            /\ pc' = "done"
            /\ UNCHANGED <<full_output, bank_index, all_bankdata_resolved>>
       ELSE /\ full_output' = write_bitvec(full_output, output_position(bank),
                                           bank_output.bitvec)
            /\ bank_index' = bank_index + 1
            /\ pc' = IF bank_index + 1 = Len(state.banks)
                     THEN "end_pass" ELSE "resolve"
            /\ UNCHANGED <<all_bankdata_resolved, result>>

\* lines 120-141: one turn of the loop over the banks
ResolveBank ==
    /\ pc = "resolve"
    /\ BankResolved(state.banks[bank_index + 1],
                    resolve_bankdata(state, pass_report,
                                     state.bankdata[bank_index + 1]))
    /\ UNCHANGED <<root_files, state, max_iterations, report, iteration,
                   symbol_guesses, prev>>
    /\ UNCHANGED other_vars

\* lines 143-155: the pass is over
EndPass ==
    /\ pc = "end_pass"
    /\ IF all_bankdata_resolved
       THEN /\ report' = transfer_to(pass_report, report)
            /\ result' = "ok"
            /\ pc' = "done"
            /\ UNCHANGED <<state, symbol_guesses>>
       ELSE IF limit_reached(iteration, max_iterations)
       THEN /\ report' = transfer_to(pass_report, report)
            /\ result' = "err"
            /\ pc' = "done"
            /\ UNCHANGED <<state, symbol_guesses>>
       ELSE /\ symbol_guesses' = state.symbols
            /\ state' = [state EXCEPT !.symbols = symbol_guesses]
            /\ pc' = "parse"
            /\ UNCHANGED <<report, result>>
    /\ UNCHANGED <<root_files, max_iterations, iteration, pass_report, full_output,
                   all_bankdata_resolved, bank_index, bank_outputs, prev>>
    /\ UNCHANGED other_vars

Next ==
    \/ \E m \in 0..MaxIter : Assemble(m)
    \/ ParsePass
    \/ ResolveBank
    \/ EndPass

Spec == Init /\ [][Next]_vars

\* the call is in its loop
Running == pc \in {"parse", "resolve", "end_pass"}

\* a step of the running call, as far as pc and bank_index show it: every
\* step of the loop changes pc or moves on to the next bank, and one is
\* possible whenever the call is running
Advance ==
    /\ Running
    /\ pc' \in {"parse", "resolve", "end_pass", "done"}
    /\ bank_index' \in 0..(MaxItems + 1)

\* the call runs on once made: the loop is sequential code that waits for
\* nothing
SpecLive == Spec /\ WF_<<pc, bank_index>>(Advance)

(***************************************************************************)
(* The bank registry on its own: create_bank called on one State with any  *)
(* banks, the errors going to one sink.                                    *)
(***************************************************************************)
\* the banks a source can declare: named, with a declaration span
DeclaredBanks ==
    {Bank(name, output_offset, addr_size, 0, wordsize, 1) :
        name \in {"b1", "b2"},
        output_offset \in {None, 0, 1, 2},
        addr_size \in {None, 1, 2},
        wordsize \in {8, 16}}

\* what the history keeps of one create_bank call
Created(bank, before, r) ==
    [bank |-> bank, banks_before |-> before.banks, ok |-> r.ok,
     state_before |-> before, report_before |-> report, report_after |-> r.report]

BankCreated(bank, r) ==
    /\ state' = r.state
    /\ report' = r.report
    /\ created' = Append(created, Created(bank, state, r))

CreateBank(bank) ==
    /\ Len(created) < MaxCreate
    /\ BankCreated(bank, create_bank(state, bank, report))
    /\ UNCHANGED <<root_files, max_iterations, pc, iteration, symbol_guesses,
                   pass_report, full_output, all_bankdata_resolved, bank_index,
                   result, bank_outputs, prev, sel_in, sel_out, call_in, call_out>>

InitBank ==
    /\ Init
    /\ root_files = << << >> >>

NextBank == \E bank \in DeclaredBanks : CreateBank(bank)

SpecBank == InitBank /\ [][NextBank]_vars

(***************************************************************************)
(* Candidate selection on its own: one call of                             *)
(* resolve_rule_invokation_candidates, in a State whose rules are declared *)
(* and in which the symbol a is bound or not, for any candidate list,      *)
(* either value of final_pass and a parent sink that is empty or not.      *)
(***************************************************************************)
\* the candidates: jmp a (short, long), ld a, jmp u, and ld of a nested
\* list (short a, then u); position i in the list is the span of its
\* arguments
CandidateKinds == {"short", "long", "noted", "unknown", "nested"}

CandidateOf(kind, i) ==
    CASE kind = "short" ->
            RuleInvokationCandidate(RuleRef(0, 0), <<Expression(Variable("a", i))>>)
      [] kind = "long" ->
            RuleInvokationCandidate(RuleRef(0, 1), <<Expression(Variable("a", i))>>)
      [] kind = "noted" ->
            RuleInvokationCandidate(RuleRef(0, 2), <<Expression(Variable("a", i))>>)
      [] kind = "unknown" ->
            RuleInvokationCandidate(RuleRef(0, 1), <<Expression(Variable("u", i))>>)
      [] OTHER ->
            RuleInvokationCandidate(RuleRef(0, 2), <<NestedRuleset(<<
                RuleInvokationCandidate(RuleRef(0, 0),
                                        <<Expression(Variable("a", i))>>),
                RuleInvokationCandidate(RuleRef(0, 1),
                                        <<Expression(Variable("u", i))>>) >>)>>)

CandidateLists ==
    {[i \in 1..Len(kinds) |-> CandidateOf(kinds[i], i)] :
        kinds \in SeqsUpTo(CandidateKinds, MaxCands) \ {<< >>}}

\* the State of a pass whose file declared the rules and bound a to v
StateWith(v, guess) ==
    [parse_file(State_new, RcReport_new, << >>).state
        EXCEPT !.symbols["a"] = v, !.symbol_guesses["a"] = guess]

SelectionInputs ==
    {[st |-> StateWith(v, guess),
      report |-> parent,
      invokation |-> RuleInvokation(Context(0, 0), 0, 8, candidates),
      candidates |-> candidates,
      final_pass |-> final_pass] :
        v \in {NoValue, make_integer(0), make_integer(5)},
        guess \in {NoValue},
        parent \in {RcReport_new,
                    error_span(RcReport_new, "duplicate symbol", 0, << >>, "a")},
        candidates \in CandidateLists,
        final_pass \in BOOLEAN}

Select ==
    /\ sel_out = << >>
    /\ sel_out' = <<resolve_rule_invokation_candidates(
                        sel_in.st, sel_in.report, sel_in.invokation,
                        sel_in.candidates, sel_in.final_pass)>>
    /\ UNCHANGED <<asm_vars, created, sel_in, call_in, call_out>>

InitSelect ==
    /\ sel_in \in SelectionInputs
    /\ root_files = << << >> >>
    /\ state = State_new
    /\ max_iterations = 0
    /\ report = RcReport_new
    /\ pc = "idle"
    /\ iteration = 0
    /\ symbol_guesses = SymbolManager_new
    /\ pass_report = RcReport_new
    /\ full_output = BitVec_new
    /\ all_bankdata_resolved = TRUE
    /\ bank_index = 0
    /\ result = "none"
    /\ bank_outputs = << >>
    /\ prev = NoCall
    /\ created = << >>
    /\ sel_out = << >>
    /\ call_in = << >>
    /\ call_out = << >>

NextSelect == Select

SpecSelect == InitSelect /\ [][NextSelect]_vars

(***************************************************************************)
(* Properties of Assembler::assemble (Spec).                               *)
(***************************************************************************)
Returned_ok == pc = "done" /\ result = "ok"

Returned_err == pc = "done" /\ result = "err"

\* C1: one call of assemble performs at most max_iterations passes, so a
\* call that has returned (with max_iterations >= 1) has counted at most
\* max_iterations passes, and a call that returned Ok did so in a pass
\* numbered at most max_iterations.
C1_AtMostMaxIterationsPasses ==
    (pc = "done" /\ max_iterations >= 1) => iteration <= max_iterations

\* the image built from the bit vectors of banks 1..n alone, each written at
\* its bank's output_offset times its bank's wordsize
RECURSIVE PlaceBanks(_, _, _)
PlaceBanks(banks, outputs, n) ==
    IF n = 0 THEN << >>
    ELSE LET below == PlaceBanks(banks, outputs, n - 1)
             at == banks[n].output_offset * banks[n].wordsize
             bits == outputs[n].bitvec
         IN  [i \in 1..Max2(Len(below), at + Len(bits)) |->
                 IF i > at /\ i <= at + Len(bits) THEN bits[i - at]
                 ELSE IF i <= Len(below) THEN below[i] ELSE 0]

\* C2: when assemble returns Ok(image), every registered bank was resolved,
\* in order, and the image is the empty bit vector into which each bank's
\* bit vector (what resolve_bankdata returns for it) was written at
\* output_offset x wordsize of that bank, and nothing else.
C2_ImageIsBanksPlaced ==
    Returned_ok =>
        /\ Len(bank_outputs) = Len(state.banks)
        /\ \A n \in 1..Len(bank_outputs) :
              /\ bank_outputs[n].bank_index = n - 1
              /\ bank_outputs[n].bitvec =
                    resolve_bankdata(state, RcReport_new, state.bankdata[n]).bitvec
        /\ full_output = PlaceBanks(state.banks, bank_outputs, Len(state.banks))

\* C2's case: Ok with a named bank whose word is not 8 bits wide, placed
\* away from bit 0 and holding data
C2_Witness ==
    /\ Returned_ok
    /\ \E n \in 2..Len(state.banks) :
          /\ state.banks[n].wordsize # 8
          /\ state.banks[n].output_offset > 0
          /\ Len(bank_outputs[n].bitvec) > 0

\* a miss in symbols was reported
MissReported(sink) ==
    \E i \in 1..Len(sink) : sink[i].kind = "error" /\ sink[i].text = "unknown symbol"

\* C5: while the driver resolves the banks in a pass that is not its last
\* one (more passes are allowed after it under either reading of the
\* limit), a reference that misses in symbols is evaluated from the
\* guesses or as 0: the resolution of the bank does not fail and no
\* missing-symbol error is recorded.
C5_MissIsGuessedBeforeLastPass ==
    (pc \in {"resolve", "end_pass"} /\ iteration < max_iterations) =>
        /\ ~MissReported(pass_report)
        /\ \A n \in 1..Len(bank_outputs) : bank_outputs[n].ok

\* C8: on one Assembler (fixed root files), if a call returned Ok(image) in
\* its k-th pass, a later call with max_iterations >= k returns Ok with the
\* same image.
C8_SameResultForLargerLimit ==
    (pc = "done" /\ prev.result = "ok" /\ max_iterations >= prev.passes) =>
        /\ result = "ok"
        /\ full_output = prev.image
        /\ iteration = prev.passes

\* C8's case: Ok in the second pass, then a call with a different, larger
\* limit has returned
C8_Witness ==
    /\ pc = "done"
    /\ prev.result = "ok"
    /\ prev.passes = 2
    /\ max_iterations >= prev.passes
    /\ max_iterations # prev.max_iterations
    /\ Len(prev.image) > 0

\* the invocation's value fits: an integer whose declared size is the size
\* guessed
Fits(e) ==
    /\ e.resolved.t = "int"
    /\ is_some(e.resolved.size)
    /\ e.resolved.size = e.invok.size_guess

\* the one error an unfitting value gets
ErrorOf(e) ==
    IF e.resolved.t # "int" THEN "wrong type returned from"
    ELSE IF ~is_some(e.resolved.size) THEN "cannot infer size of"
    ELSE "size did not converge after iterations"

\* bits [off, off + size) of bv hold v
Holds(bv, off, v, size) ==
    /\ Len(bv) >= off + size
    /\ \A k \in 0..(size - 1) : bv[off + k + 1] = (v \div Pow2(size - 1 - k)) % 2

\* bv and old agree outside bits [off, off + size), bv being old extended
\* by zeros up to off + size at most
SameOutside(bv, old, off, size) ==
    /\ Len(bv) = Max2(Len(old), off + size)
    /\ \A i \in 1..Len(bv) :
          (i <= off \/ i > off + size) => bv[i] = IF i <= Len(old) THEN old[i] ELSE 0

\* C9: every invocation resolve_bankdata resolved to a value is written at
\* its ctx.bit_offset iff the value is an integer whose declared size is
\* the invocation's size_guess (and then no error is recorded); otherwise
\* the bit vector is left as it was and exactly one error is recorded, the
\* one of the case.
C9_WrittenIffSizeAsGuessed ==
    \A n \in 1..Len(bank_outputs) : \A j \in 1..Len(bank_outputs[n].trace) :
        LET e == bank_outputs[n].trace[j] IN
        IF Fits(e)
        THEN /\ Holds(e.bitvec_after, e.invok.ctx.bit_offset,
                      e.resolved.v, e.resolved.size)
             /\ SameOutside(e.bitvec_after, e.bitvec_before,
                            e.invok.ctx.bit_offset, e.resolved.size)
             /\ e.report_after = e.report_before
        ELSE /\ e.bitvec_after = e.bitvec_before
             /\ Len(e.report_after) = Len(e.report_before) + 1
             /\ SubSeq(e.report_after, 1, Len(e.report_before)) = e.report_before
             /\ e.report_after[Len(e.report_after)].kind = "error"
             /\ e.report_after[Len(e.report_after)].text = ErrorOf(e)
             /\ e.report_after[Len(e.report_after)].span = e.invok.span

\* C9's case: resolve_bankdata resolved an invocation to a sized integer
\* whose size is not the one guessed, and went on without writing it
C9_Witness ==
    \E n \in 1..Len(bank_outputs) : \E j \in 1..Len(bank_outputs[n].trace) :
        LET e == bank_outputs[n].trace[j] IN
        /\ e.resolved.t = "int"
        /\ is_some(e.resolved.size)
        /\ e.resolved.size # e.invok.size_guess
        /\ e.bitvec_after = e.bitvec_before

\* the messages of one pass run from the root files with the given guesses:
\* the parse, then the banks in order up to the first that fails
RECURSIVE BankMessages(_, _, _)
BankMessages(st, sink, n) ==
    IF n > Len(st.bankdata) THEN sink
    ELSE LET r == resolve_bankdata(st, sink, st.bankdata[n])
         IN  IF has_errors(r.report) \/ ~r.ok THEN r.report
             ELSE BankMessages(st, r.report, n + 1)

PassMessages(files, guesses) ==
    LET r == parse_root_files(fresh_state(guesses), RcReport_new, files, 1)
    IN  IF ~r.ok THEN r.report ELSE BankMessages(r.state, r.report, 1)

\* C10: when assemble returns Ok or Err, the caller's sink (empty at the
\* call) holds exactly the messages of the pass in which it returned, a
\* pass being run from the root files and the guesses it started with;
\* nothing of an earlier pass is in it.
C10_SinkHoldsReturningPassOnly ==
    (Returned_ok \/ Returned_err) =>
        report = PassMessages(root_files, state.symbol_guesses)

\* C10's case: assemble returned from its second or a later pass, with
\* messages, the passes before it having recorded messages too
C10_Witness ==
    /\ Returned_err
    /\ iteration >= 2
    /\ Len(report) >= 1

(***************************************************************************)
(* Properties of State::create_bank (SpecBank).                            *)
(***************************************************************************)
\* a bank's output region in bits, measured with its own wordsize
RegionStart(b) == b.output_offset * b.wordsize

RegionSize(b) == IF is_some(b.addr_size) THEN b.addr_size * b.wordsize ELSE None

\* the overlap of two banks that both have an output_offset
RegionsOverlap(b1, b2) ==
    CASE is_some(RegionSize(b1)) /\ is_some(RegionSize(b2)) ->
            /\ RegionStart(b1) + RegionSize(b1) > RegionStart(b2)
            /\ RegionStart(b2) + RegionSize(b2) > RegionStart(b1)
      [] is_some(RegionSize(b1)) -> RegionStart(b1) + RegionSize(b1) > RegionStart(b2)
      [] is_some(RegionSize(b2)) -> RegionStart(b2) + RegionSize(b2) > RegionStart(b1)
      [] OTHER -> TRUE

\* the named banks of a registry (the default bank is the first entry)
NamedBanks(banks) == 2..Len(banks)

\* C3: after any sequence of create_bank calls, no two registered named
\* banks that both have an output_offset have overlapping output regions,
\* each region measured in bits with its bank's own wordsize.
C3_NoOverlappingBanks ==
    \A i, j \in NamedBanks(state.banks) :
        (/\ i < j
         /\ is_some(state.banks[i].output_offset)
         /\ is_some(state.banks[j].output_offset))
        => ~RegionsOverlap(state.banks[i], state.banks[j])

\* C4: a create_bank call for a bank with an output_offset is rejected if
\* and only if the bank overlaps a named bank registered before it that
\* has an output_offset; a bank without output_offset is never rejected.
C4_RejectedIffOverlap ==
    \A c \in 1..Len(created) :
        LET e == created[c] IN
        IF is_some(e.bank.output_offset)
        THEN ~e.ok <=>
                \E j \in NamedBanks(e.banks_before) :
                    /\ is_some(e.banks_before[j].output_offset)
                    /\ RegionsOverlap(e.bank, e.banks_before[j])
        ELSE e.ok

(***************************************************************************)
(* Properties of State::resolve_rule_invokation_candidates (SpecSelect).   *)
(***************************************************************************)
\* candidate i of the call resolved on its own, against an empty sink
Alone(i) ==
    resolve_rule_invokation_candidate(
        sel_in.st, RcReport_new, sel_in.invokation, sel_in.candidates[i],
        sel_in.final_pass)

\* the candidates that resolve
Resolving == {i \in 1..Len(sel_in.candidates) : Alone(i).ok}

First(S) == CHOOSE i \in S : \A k \in S : i <= k

\* C6: when some candidate resolves, the call returns the value of the
\* first one that does, the parent sink gets exactly that candidate's
\* messages after what it held, and the candidates resolved are those up to
\* it: none after it, and nothing of those before it reaches the sink.
C6_FirstResolvingCandidateWins ==
    (sel_out # << >> /\ Resolving # {}) =>
        /\ sel_out[1].ok
        /\ sel_out[1].val = Alone(First(Resolving)).val
        /\ sel_out[1].report = sel_in.report \o Alone(First(Resolving)).report
        /\ sel_out[1].tried = [i \in 1..First(Resolving) |-> i]

\* C6's case: a parent sink with a message, a first candidate that fails
\* with messages, a second one that resolves with messages
C6_Witness ==
    /\ sel_out # << >>
    /\ Len(sel_in.report) > 0
    /\ Len(sel_in.candidates) >= 2
    /\ Resolving # {}
    /\ First(Resolving) = 2
    /\ Len(Alone(1).report) > 0
    /\ Len(Alone(2).report) > 0
    /\ sel_out[1].ok

\* C7: when every candidate fails and final_pass is true, the call returns
\* Err and the parent sink gets exactly the messages of one resolution of
\* the last candidate after what it held.
C7_LastCandidateReported ==
    (sel_out # << >> /\ Resolving = {} /\ sel_in.final_pass) =>
        /\ ~sel_out[1].ok
        /\ sel_out[1].report =
              sel_in.report \o Alone(Len(sel_in.candidates)).report

\* C7's case: two candidates that fail with different messages, in the
\* final pass, the parent sink holding a message already
C7_Witness ==
    /\ sel_out # << >>
    /\ sel_in.final_pass
    /\ Resolving = {}
    /\ Len(sel_in.candidates) >= 2
    /\ Len(sel_in.report) > 0
    /\ Alone(1).report # Alone(Len(sel_in.candidates)).report
    /\ Len(Alone(1).report) > 0
    /\ ~sel_out[1].ok

(***************************************************************************)
(* Properties of the passes of Assembler::assemble (Spec, SpecLive).       *)
(***************************************************************************)
\* a freshly constructed State holding the given guesses: only the default
\* bank, no rulesets, empty symbols
PassStart(guesses) ==
    [banks |-> << [name |-> "", output_offset |-> 0, addr_size |-> None,
                   addr_start |-> 0, wordsize |-> 8, decl_span |-> None] >>,
     bankdata |-> << [bank_ref |-> 0, cur_bit_offset |-> 0, invokations |-> << >>] >>,
     symbols |-> [n \in Names |-> NoValue],
     symbol_guesses |-> guesses,
     rulesets |-> << >>, active_rulesets |-> << >>,
     cur_bank |-> 0, cur_wordsize |-> 8]

\* C11: pass 1 starts with empty symbol_guesses; pass n+1 starts with
\* symbol_guesses equal to the symbols of the end of pass n; and the State
\* a pass parses into is a freshly constructed one holding those guesses,
\* whatever the State of the pass before held.
C11_PassStartsFreshWithGuesses ==
    [][ /\ (pc = "parse" /\ iteration = 0) => symbol_guesses = [n \in Names |-> NoValue]
        /\ (pc = "end_pass" /\ pc' = "parse") => symbol_guesses' = state.symbols
        /\ (pc = "parse" /\ pc' # "parse") =>
              /\ iteration' = iteration + 1
              /\ state'.symbol_guesses = symbol_guesses
              /\ state' = parse_root_files(PassStart(symbol_guesses),
                                           RcReport_new, root_files, 1).state
      ]_vars

\* C11's case: the second pass was parsed with the label bound by the first
\* pass as its guess
C11_Witness ==
    /\ pc = "resolve"
    /\ iteration = 2
    /\ state.symbol_guesses["a"] # NoValue

ParentSinks == {RcReport_new, error_span(RcReport_new, "duplicate symbol", 0, << >>, "a")}

\* a State with one named bank after the default one, the current bank
StateWithBank(addr_start, wordsize) ==
    create_bank(State_new, Bank("b1", 0, None, addr_start, wordsize, 1),
                RcReport_new).state

AddrCalls ==
    {[method |-> "get_addr",
      st |-> StateWithBank(addr_start, wordsize),
      report |-> parent,
      ctx |-> Context(bit_offset, 1),
      span |-> 1] :
        addr_start \in {0, 3},
        wordsize \in {4, 8, 16},
        parent \in ParentSinks,
        bit_offset \in 0..MaxBitOffset}

\* the expressions of a data directive: integers around the directive
\* sizes, an integer that has a size already, a boolean, an unknown name
DataExprs ==
    {Literal(make_integer(v), 1) : v \in {0, 1, 255, 256, 4660}}
        \cup {Literal(Integer(3, 4), 1), Literal(Bool(TRUE), 1), Variable("u", 1)}

DataCalls ==
    {[method |-> "resolve_data_invokation",
      st |-> State_new,
      report |-> parent,
      invokation |-> DataInvokation(Context(0, 0), 2, 8, expr, elem_size),
      final_pass |-> final_pass] :
        parent \in ParentSinks,
        expr \in DataExprs,
        elem_size \in {None, 1, 8, 13},
        final_pass \in BOOLEAN}

ArgValues == {Bool(TRUE), Bool(FALSE), make_integer(0), Void}

FnCalls ==
    {[method |-> "eval_fn",
      st |-> State_new,
      ctx |-> Context(0, 0),
      info |-> [func |-> Function("assert"), args |-> args, span |-> 1,
                report |-> parent]] :
        parent \in ParentSinks,
        args \in SeqsUpTo(ArgValues, MaxArgs)}

VarCalls ==
    {[method |-> "eval_var",
      st |-> [State_new EXCEPT !.symbols["a"] = v, !.symbol_guesses["a"] = guess],
      ctx |-> Context(bit_offset, 0),
      info |-> [name |-> name, span |-> 1, report |-> parent],
      final_pass |-> final_pass] :
        v \in {NoValue, make_integer(5)},
        guess \in {NoValue, make_integer(5), make_integer(7)},
        bit_offset \in {0, 3},
        name \in {"a", "u", "$", "pc", "assert"},
        parent \in ParentSinks,
        final_pass \in BOOLEAN}

Called(out) ==
    /\ call_out = << >>
    /\ call_out' = <<out>>
    /\ UNCHANGED <<asm_vars, created, sel_in, sel_out, call_in>>

GetAddr ==
    /\ call_in.method = "get_addr"
    /\ Called(get_addr(call_in.st, call_in.report, call_in.ctx, call_in.span))

ResolveData ==
    /\ call_in.method = "resolve_data_invokation"
    /\ Called(resolve_data_invokation(call_in.st, call_in.report,
                                      call_in.invokation, call_in.final_pass))

EvalFn ==
    /\ call_in.method = "eval_fn"
    /\ Called(eval_fn(call_in.st, call_in.ctx, call_in.info))

EvalVar ==
    /\ call_in.method = "eval_var"
    /\ Called(eval_var(call_in.st, call_in.ctx, call_in.info, call_in.final_pass))

InitCall ==
    /\ call_in \in AddrCalls \cup DataCalls \cup FnCalls \cup VarCalls
    /\ call_out = << >>
    /\ root_files = << << >> >>
    /\ state = State_new
    /\ max_iterations = 0
    /\ report = RcReport_new
    /\ pc = "idle"
    /\ iteration = 0
    /\ symbol_guesses = SymbolManager_new
    /\ pass_report = RcReport_new
    /\ full_output = BitVec_new
    /\ all_bankdata_resolved = TRUE
    /\ bank_index = 0
    /\ result = "none"
    /\ bank_outputs = << >>
    /\ prev = NoCall
    /\ created = << >>
    /\ sel_in = << >>
    /\ sel_out = << >>

NextCall ==
    \/ GetAddr
    \/ ResolveData
    \/ EvalFn
    \/ EvalVar

SpecCall == InitCall /\ [][NextCall]_vars

(***************************************************************************)
(* Properties of the methods called on their own (SpecCall).               *)
(***************************************************************************)
CallReturned(method) == call_out # << >> /\ call_in.method = method

\* the sink after the call holds what it held before and one more error
OneErrorAdded(before, after, text, span) ==
    /\ Len(after) = Len(before) + 1
    /\ SubSeq(after, 1, Len(before)) = before
    /\ after[Len(after)].kind = "error"
    /\ after[Len(after)].text = text
    /\ after[Len(after)].span = span

\* C13: get_addr fails iff ctx.bit_offset is not divisible by 8; on
\* failure it reports exactly one error naming N = 8 - (bit_offset mod 8)
\* bits short, 'bit' for N = 1 and 'bits' otherwise; on success it reports
\* nothing and returns bit_offset / 8 + the bank's addr_start, whatever the
\* bank's wordsize.
C13_AddrIffByteAligned ==
    CallReturned("get_addr") =>
        LET bit_offset == call_in.ctx.bit_offset
            bank == call_in.st.banks[call_in.ctx.bank_ref + 1]
            N == 8 - (bit_offset % 8)
            out == call_out[1]
        IN  IF bit_offset % 8 = 0
            THEN /\ out.ok
                 /\ out.addr = (bit_offset \div 8) + bank.addr_start
                 /\ out.report = call_in.report
            ELSE /\ ~out.ok
                 /\ OneErrorAdded(call_in.report, out.report,
                        "position is not aligned to an address boundary",
                        call_in.span)
                 /\ out.report[Len(out.report)].args = <<N>>
                 /\ out.report[Len(out.report)].name = IF N = 1 THEN "bit" ELSE "bits"

\* C13's case: one bit short in a bank of 16-bit words, the sink holding a
\* message already
C13_Witness ==
    /\ CallReturned("get_addr")
    /\ call_in.ctx.bit_offset % 8 = 7
    /\ call_in.st.banks[call_in.ctx.bank_ref + 1].wordsize = 16
    /\ Len(call_in.report) > 0
    /\ ~call_out[1].ok

\* the least number of bits, at least 1, that hold v
MinBits(v) == CHOOSE m \in 1..32 : v < Pow2(m) /\ (m = 1 \/ v >= Pow2(m - 1))

\* what the directive's expression evaluates to
Evaluated ==
    eval_expr(call_in.st, call_in.report, call_in.invokation.expr,
              call_in.invokation.ctx, EvalContext_new, call_in.final_pass)

\* C14: with an element size e and an integer result, resolve_data_invokation
\* emits 'value (size = m) is larger than the directive size (= e)' iff
\* the value's minimal size m exceeds e, and the integer it returns has
\* declared size e in every case; without an element size, or for a value
\* that is no integer, the evaluated value is returned unchanged and no
\* size error is emitted; a failed evaluation fails the call.
C14_OversizeReportedSizeSet ==
    CallReturned("resolve_data_invokation") =>
        LET e == call_in.invokation.elem_size
            out == call_out[1]
        IN  IF ~Evaluated.ok
            THEN ~out.ok /\ out.report = Evaluated.report
            ELSE IF e # None /\ Evaluated.val.t = "int"
            THEN /\ out.ok
                 /\ out.val = [t |-> "int", v |-> Evaluated.val.v, size |-> e]
                 /\ IF MinBits(Evaluated.val.v) > e
                    THEN /\ OneErrorAdded(Evaluated.report, out.report,
                                "value is larger than the directive size",
                                call_in.invokation.expr.span)
                         /\ out.report[Len(out.report)].args =
                                <<MinBits(Evaluated.val.v), e>>
                    ELSE out.report = Evaluated.report
            ELSE /\ out.ok
                 /\ out.val = Evaluated.val
                 /\ out.report = Evaluated.report

\* C14's case: db 0x1234 under elem_size 8: the error with sizes 13 and 8,
\* and the value returned with size 8
C14_Witness ==
    /\ CallReturned("resolve_data_invokation")
    /\ call_in.invokation.elem_size = 8
    /\ call_in.invokation.expr.val = make_integer(4660)
    /\ call_out[1].ok
    /\ call_out[1].val.size = 8
    /\ call_out[1].report[Len(call_out[1].report)].args = <<13, 8>>

\* C15: assert with exactly one boolean argument returns Void and emits
\* nothing when it is true, and fails with exactly one 'assertion failed'
\* error when it is false; with another number of arguments it fails with
\* 'wrong number of arguments'; with one argument that is no boolean it
\* fails with 'wrong argument type'.
C15_AssertOutcomes ==
    CallReturned("eval_fn") =>
        LET args == call_in.info.args
            before == call_in.info.report
            out == call_out[1]
        IN  IF Len(args) = 1 /\ args[1] = Bool(TRUE)
            THEN out.ok /\ out.val = Void /\ out.report = before
            ELSE /\ ~out.ok
                 /\ out.handled
                 /\ OneErrorAdded(before, out.report,
                        IF Len(args) # 1 THEN "wrong number of arguments"
                        ELSE IF args[1].t = "bool" THEN "assertion failed"
                        ELSE "wrong argument type",
                        call_in.info.span)

\* C15's case: assert(false), the sink holding a message already
C15_Witness ==
    /\ CallReturned("eval_fn")
    /\ call_in.info.args = <<Bool(FALSE)>>
    /\ Len(call_in.info.report) > 0
    /\ ~call_out[1].ok

\* C17: for a name that is not reserved, eval_var returns the value bound
\* in symbols whenever there is one, whatever the guesses hold; on a miss
\* with final_pass false, the guess if there is one and integer 0
\* otherwise; on a miss with final_pass true, a failure (Err(false)),
\* whatever the guesses hold.  It never writes to the sink.
C17_SymbolsThenGuesses ==
    (CallReturned("eval_var") /\ call_in.info.name \notin {"$", "pc", "assert"}) =>
        LET name == call_in.info.name
            bound == name \in DOMAIN call_in.st.symbols
                        /\ call_in.st.symbols[name] # NoValue
            guessed == name \in DOMAIN call_in.st.symbol_guesses
                        /\ call_in.st.symbol_guesses[name] # NoValue
            out == call_out[1]
        IN  /\ out.report = call_in.info.report
            /\ IF bound
               THEN out.ok /\ out.val = call_in.st.symbols[name]
               ELSE IF ~call_in.final_pass
               THEN /\ out.ok
                    /\ out.val = IF guessed THEN call_in.st.symbol_guesses[name]
                                 ELSE [t |-> "int", v |-> 0, size |-> None]
               ELSE ~out.ok /\ ~out.handled

\* C17's case: a miss in symbols in the final pass, a guess being there
C17_Witness ==
    /\ CallReturned("eval_var")
    /\ call_in.info.name = "a"
    /\ call_in.st.symbols["a"] = NoValue
    /\ call_in.st.symbol_guesses["a"] # NoValue
    /\ call_in.final_pass
    /\ ~call_out[1].ok

(***************************************************************************)
(* Further properties of candidate selection (SpecSelect), of the bank     *)
(* loop of assemble (Spec) and of the bank registry (SpecBank).            *)
(***************************************************************************)
\* C16: when every candidate fails and final_pass is false, the call
\* returns Err and the parent sink is as it was: every candidate was
\* resolved, against a sink of its own, and none of their messages is kept.
C16_SilentFailureBeforeFinalPass ==
    (sel_out # << >> /\ Resolving = {} /\ ~sel_in.final_pass) =>
        /\ ~sel_out[1].ok
        /\ sel_out[1].report = sel_in.report
        /\ sel_out[1].tried = [i \in 1..Len(sel_in.candidates) |-> i]

\* C16's case: two candidates that fail with messages, not in the final
\* pass, the parent sink holding a message already
C16_Witness ==
    /\ sel_out # << >>
    /\ ~sel_in.final_pass
    /\ Resolving = {}
    /\ Len(sel_in.candidates) >= 2
    /\ Len(sel_in.report) > 0
    /\ \A i \in 1..Len(sel_in.candidates) : Len(Alone(i).report) > 0
    /\ ~sel_out[1].ok

\* C18: in every pass whose parse succeeded, once the loop over the banks
\* is over, resolve_bankdata was called exactly once for every registered
\* bank, in registration order from bank 0, the banks after one that did
\* not resolve cleanly included.
C18_EveryBankResolved ==
    pc = "end_pass" =>
        /\ Len(bank_outputs) = Len(state.banks)
        /\ \A n \in 1..Len(bank_outputs) : bank_outputs[n].bank_index = n - 1

\* C20: if assemble returns Ok, the caller's sink (empty at the call) holds
\* no message of kind Error.
C20_NoErrorOnOk ==
    Returned_ok => \A i \in 1..Len(report) : report[i].kind # "error"

\* C20's case: Ok with messages in the caller's sink
C20_Witness ==
    /\ Returned_ok
    /\ Len(report) > 0

\* the registry is well formed
RegistryWellFormed ==
    /\ Len(state.banks) = Len(state.bankdata)
    /\ Len(state.banks) >= 1
    /\ state.banks[1].name = ""
    /\ \A i \in 1..Len(state.bankdata) : state.bankdata[i].bank_ref = i - 1
    /\ state.cur_bank \in 0..(Len(state.banks) - 1)

\* what the create_bank call just made did, e being its record
CreateBankEffect(e) ==
    IF e.ok
    THEN /\ state'.banks = Append(state.banks, e.bank)
         /\ state'.bankdata =
                Append(state.bankdata,
                       [bank_ref |-> Len(state.banks), cur_bit_offset |-> 0,
                        invokations |-> << >>])
         /\ state'.cur_bank = Len(state.banks)
         /\ report' = report
    ELSE /\ state'.banks = state.banks
         /\ state'.bankdata = state.bankdata
         /\ state'.cur_bank = state.cur_bank
         /\ OneErrorAdded(report, report', "output region overlaps with bank",
                          e.bank.decl_span)

\* C19: after State::new and any create_bank calls, banks and bankdata have
\* the same length, at least 1 (bank 0 is the default bank),
\* bankdata[i].bank_ref.index = i, and cur_bank is a valid index; an
\* accepted create_bank appends exactly one bank, with an empty invocation
\* list and cur_bit_offset 0, and makes it cur_bank; a rejected one leaves
\* banks, bankdata and cur_bank as they were and reports exactly one
\* overlap error, at the new bank's declaration.
C19_RegistryWellFormed ==
    /\ []RegistryWellFormed
    /\ [][Len(created') = Len(created) + 1 =>
            CreateBankEffect(created'[Len(created')])]_vars

\* C19's case: an accepted call, then a rejected one
C19_Witness ==
    /\ Len(created) >= 2
    /\ created[1].ok
    /\ ~created[Len(created)].ok
    /\ Len(report) = 1
    /\ Len(state.banks) = 2

(***************************************************************************)
(* The placement of a bank without output_offset (Spec).                   *)
(***************************************************************************)
\* the bank the loop of assemble has just resolved cleanly and is placing
\* has no output_offset: bank.output_offset.unwrap() aborts the call
AbortedAtPlacement == pc = "done" /\ result = "panic"

\* C21: assemble never reaches the placement of a bank that has no
\* output_offset: every bank that resolved cleanly has an output_offset
\* when its bits are written into the image, so the call is never aborted
\* there.
C21_PlacedBanksHaveOffset ==
    /\ ~AbortedAtPlacement
    /\ \A n \in 1..bank_index : is_some(state.banks[n].output_offset)

====
